---- MODULE Spec2Model ----
(***************************************************************************)
(* Model of the style cascade (DrawOptions), the unit resolver, the paint  *)
(* and clip resolvers, the draw dispatcher's DrawOptions::draw and the     *)
(* bidi run placement of Chunk::layout.                                    *)
(*                                                                         *)
(* f32 values are modelled as exact rationals <<n, d>> in lowest terms     *)
(* (d > 0), so the products and quotients the code computes are compared   *)
(* exactly; float rounding is not modelled.                                *)
(***************************************************************************)
EXTENDS Integers, Sequences, FiniteSets, TLC

VARIABLES
    stack,      \* the DrawOptions chain of the walk, root first; the last one is current
    chain,      \* the Attrs of the elements on the walk path (chain[i] made stack[i+1])
    scene,      \* the output Scene: paints, draw paths and clip paths, append-only
    stdout,     \* the ids printed by "clip path missing: {}"
    status,     \* "running", or "panicked" after unimplemented!() / unwrap() on None
    ret,        \* the value returned by the last call
    last,       \* the last call: its name, its arguments and the state it ran in
    visited,    \* the number of elements visited so far
    chunk,      \* the text Chunk: its visual runs
    layout      \* the ChunkLayout returned by the last Chunk::layout

vars == <<stack, chain, scene, stdout, status, ret, last, visited, chunk, layout>>

(***************************************************************************)
(* Bounds of the model.                                                    *)
(***************************************************************************)
MaxNodes == 3       \* elements visited in one compile
MaxViewBoxes == 1   \* nested view boxes applied in one compile
MaxNum == 2         \* the numeric values of lengths are -1..MaxNum and 50
MaxRuns == 2        \* visual runs of a chunk
MaxText == 3        \* bytes of a chunk's text

(***************************************************************************)
(* Option<T>                                                               *)
(***************************************************************************)
None == [tag |-> "None"]
Some(v) == [tag |-> "Some", val |-> v]
Panic == [tag |-> "Panic"]
IsSome(o) == o.tag = "Some"

(***************************************************************************)
(* f32 as exact rationals                                                  *)
(***************************************************************************)
Abs(n) == IF n < 0 THEN -n ELSE n

RECURSIVE GCD(_, _)
GCD(a, b) == IF b = 0 THEN a ELSE GCD(b, a % b)

Rat(n, d) ==
    LET g == GCD(Abs(n), Abs(d))
        s == IF d < 0 THEN -1 ELSE 1
    IN  <<(s * n) \div g, (s * d) \div g>>

R(n) == <<n, 1>>
Mul(a, b) == Rat(a[1] * b[1], a[2] * b[2])
Neg(a) == <<-a[1], a[2]>>
Gt0(a) == a[1] > 0

(***************************************************************************)
(* svgtypes::Length and LengthUnit                                         *)
(***************************************************************************)
LengthUnit == {"None", "Cm", "Em", "Ex", "In", "Mm", "Pc", "Percent", "Pt", "Px"}
Nums == (-1 .. MaxNum) \cup {50}
Length(n, u) == [num |-> n, unit |-> u]
Lengths == [num : Nums, unit : LengthUnit]
Axis == {"X", "Y"}

(***************************************************************************)
(* The document: Svg::named_items, and DrawContext                         *)
(***************************************************************************)
named_items ==
    [lin |-> "LinearGradient", rad |-> "RadialGradient",
     clip |-> "ClipPath", shape |-> "Rect"]

DefaultDpi == 75
Dpis == {DefaultDpi, 96}

DrawContextNew(d) == [svg |-> "svg", dpi |-> d]

\* DrawContext::resolve: named_items.get(id)
Resolve(id) == IF id \in DOMAIN named_items THEN Some(named_items[id]) ELSE None

(***************************************************************************)
(* Paint, ClipPathAttr, FillRule, StrokeStyle, Transform2F, RectF          *)
(***************************************************************************)
PaintNone == [kind |-> "None"]
PaintColor(c) == [kind |-> "Color", color |-> c]
PaintRef(id) == [kind |-> "Ref", id |-> id]
PaintBlack == PaintColor("black")

ClipNone == [kind |-> "None"]
ClipRef(id) == [kind |-> "Ref", id |-> id]

\* A Transform2F is kept as the sequence of the factors of the product:
\* a * b is a \o b.
TransformScale(s) == <<[op |-> "scale", by |-> s]>>
TransformTranslation(v) == <<[op |-> "translate", by |-> v]>>
TransformMul(a, b) == a \o b

RectFNew(origin, size) == [origin |-> origin, size |-> size]
RectWidth(r) == r.size[1]
RectHeight(r) == r.size[2]

(***************************************************************************)
(* DrawOptions::new                                                        *)
(***************************************************************************)
DrawOptionsNew(ctx) ==
    [ctx |-> ctx,
     opacity |-> R(1),
     fill |-> PaintBlack,
     fill_rule |-> "EvenOdd",
     fill_opacity |-> R(1),
     stroke |-> PaintNone,
     stroke_opacity |-> R(1),
     stroke_style |-> [line_width |-> R(1), line_cap |-> "Butt", line_join |-> "Bevel"],
     transform |-> TransformScale(<<R(10), R(10)>>),
     clip_path |-> ClipNone,
     clip_rule |-> "EvenOdd",
     view_box |-> None,
     time |-> "start"]

Top == stack[Len(stack)]
SetTop(o) == [stack EXCEPT ![Len(stack)] = o]

(***************************************************************************)
(* DrawOptions::resolve_length and resolve_length_along                    *)
(***************************************************************************)
UnitScalePt72(self, unit) ==
    CASE unit = "None" -> R(1)
      [] unit = "Cm" -> Mul(R(self.ctx.dpi), Rat(100, 254))
      [] unit = "In" -> R(self.ctx.dpi)
      [] unit = "Mm" -> Mul(R(self.ctx.dpi), Rat(10, 254))
      [] unit = "Pt" -> Mul(R(self.ctx.dpi), Rat(1, 72))
      [] unit = "Px" -> R(1)

\* the scale of the units that have one: dpi * (1.0 / 2.54) and so on
UnitScale(self, unit) ==
    CASE unit = "None" -> R(1)
      [] unit = "Cm" -> Mul(R(self.ctx.dpi), Rat(100, 254))
      [] unit = "In" -> R(self.ctx.dpi)
      [] unit = "Mm" -> Mul(R(self.ctx.dpi), Rat(10, 254))
      [] unit = "Pt" -> Mul(R(self.ctx.dpi), Rat(1, 75))
      [] unit = "Px" -> R(1)

Unimplemented == {"Em", "Ex", "Pc"}

resolve_length(self, length) ==
    IF length.unit \in Unimplemented THEN Panic
    ELSE IF length.unit = "Percent" THEN None
    ELSE Some(Mul(R(length.num), UnitScale(self, length.unit)))

resolve_length_alongEmFallsBack(self, length, axis) ==
    IF length.unit \in {"Ex", "Pc"} THEN Panic
    ELSE IF length.unit = "Em" THEN Some(R(length.num))
    ELSE IF length.unit = "Percent" THEN
        IF self.view_box = None THEN None
        ELSE IF axis = "X" THEN Some(RectWidth(self.view_box.val))
        ELSE Some(RectHeight(self.view_box.val))
    ELSE Some(Mul(R(length.num), UnitScale(self, length.unit)))

resolve_length_along(self, length, axis) ==
    IF length.unit \in Unimplemented THEN Panic
    ELSE IF length.unit = "Percent" THEN
        IF self.view_box = None THEN None
        ELSE IF axis = "X" THEN Some(RectWidth(self.view_box.val))
        ELSE Some(RectHeight(self.view_box.val))
    ELSE Some(Mul(R(length.num), UnitScale(self, length.unit)))

\* resolve_vector: both components unwrapped, x first
resolve_vector(self, v) ==
    LET x == resolve_length_along(self, v[1], "X")
        y == resolve_length_along(self, v[2], "Y")
    IN  IF IsSome(x) /\ IsSome(y) THEN Some(<<x.val, y.val>>) ELSE Panic

\* resolve_rect: RectF::new(resolve_vector(origin), resolve_vector(size))
resolve_rect(self, rect) ==
    LET o == resolve_vector(self, rect.origin)
        s == resolve_vector(self, rect.size)
    IN  IF IsSome(o) /\ IsSome(s) THEN Some(RectFNew(o.val, s.val)) ELSE Panic

\* apply_viewbox: the new DrawOptions, or Panic
apply_viewbox(self, size, view_box) ==
    LET vb == resolve_rect(self, view_box)
        sz == resolve_vector(self, size)
    IN  IF IsSome(vb) /\ IsSome(sz) THEN
            Some([self EXCEPT
                !.transform =
                    TransformMul(
                        TransformMul(self.transform,
                            <<[op |-> "scale_to", from |-> vb.val.size, to |-> sz.val]>>),
                        TransformTranslation(<<Neg(vb.val.origin[1]), Neg(vb.val.origin[2])>>)),
                !.view_box = Some(vb.val)])
        ELSE Panic

(***************************************************************************)
(* Attrs, the presentation attributes of an element.  An Option field is   *)
(* None when the attribute is absent.                                      *)
(***************************************************************************)
NoAttrs ==
    [clip_path |-> None, clip_rule |-> None, opacity |-> None,
     transform |-> <<>>, fill |-> None, fill_rule |-> None,
     fill_opacity |-> None, stroke |-> None, stroke_width |-> None,
     stroke_opacity |-> None]

\* attrs.fill.get(options), attrs.stroke.get(options): the attribute's paint
\* when present, else the inherited one
PaintGet(attr, inherited) == IF IsSome(attr) THEN attr.val ELSE inherited

\* attrs.transform.get(options): the element's local transform
TransformGet(attr, self) == attr

(***************************************************************************)
(* DrawOptions::apply                                                      *)
(***************************************************************************)
\* opacity: self.opacity * attrs.opacity.unwrap_or(1.0)
applyOpacityReplaced(self, attrs) ==
    IF IsSome(attrs.opacity) THEN attrs.opacity.val ELSE self.opacity

applyOpacity(self, attrs) ==
    Mul(self.opacity, IF IsSome(attrs.opacity) THEN attrs.opacity.val ELSE R(1))

\* clip_rule: attrs.clip_rule.unwrap_or(self.clip_rule)
applyClipRuleReset(self, attrs) ==
    IF IsSome(attrs.clip_rule) THEN attrs.clip_rule.val ELSE "EvenOdd"

applyClipRule(self, attrs) ==
    IF IsSome(attrs.clip_rule) THEN attrs.clip_rule.val ELSE self.clip_rule

apply(self, attrs) ==
    LET stroke_style ==
            IF IsSome(attrs.stroke_width)
            THEN [self.stroke_style EXCEPT !.line_width = R(attrs.stroke_width.val.num)]
            ELSE self.stroke_style
    IN  [self EXCEPT
            !.clip_path = IF IsSome(attrs.clip_path) THEN attrs.clip_path.val
                          ELSE self.clip_path,
            !.clip_rule = applyClipRule(self, attrs),
            !.opacity = applyOpacity(self, attrs),
            !.transform = TransformMul(self.transform, TransformGet(attrs.transform, self)),
            !.fill = PaintGet(attrs.fill, self.fill),
            !.fill_rule = IF IsSome(attrs.fill_rule) THEN attrs.fill_rule.val
                          ELSE self.fill_rule,
            !.fill_opacity = IF IsSome(attrs.fill_opacity) THEN attrs.fill_opacity.val
                             ELSE self.fill_opacity,
            !.stroke = PaintGet(attrs.stroke, self.stroke),
            !.stroke_style = stroke_style,
            !.stroke_opacity = IF IsSome(attrs.stroke_opacity) THEN attrs.stroke_opacity.val
                               ELSE self.stroke_opacity]

(***************************************************************************)
(* DrawOptions::resolve_paint                                              *)
(***************************************************************************)
Gradients == {"LinearGradient", "RadialGradient"}

resolve_paintAnyTarget(self, paint, opacity) ==
    LET op == Mul(opacity, self.opacity)
    IN  CASE paint.kind = "Color" ->
                Some([kind |-> "color", of |-> paint.color, opacity |-> op])
          [] paint.kind = "Ref" ->
                IF IsSome(Resolve(paint.id))
                THEN Some([kind |-> "gradient", of |-> paint.id, opacity |-> op])
                ELSE None
          [] OTHER -> None

resolve_paint(self, paint, opacity) ==
    LET op == Mul(opacity, self.opacity)
    IN  CASE paint.kind = "Color" ->
                Some([kind |-> "color", of |-> paint.color, opacity |-> op])
          [] paint.kind = "Ref" ->
                LET r == Resolve(paint.id)
                IN  IF IsSome(r) /\ r.val \in Gradients
                    THEN Some([kind |-> "gradient", of |-> paint.id, opacity |-> op])
                    ELSE None
          [] OTHER -> None

(***************************************************************************)
(* The Scene.  push_paint, push_clip_path and push_draw_path append; the   *)
(* id a push returns is the index of the new entry, counted from 0.        *)
(***************************************************************************)
SceneNew == [paints |-> <<>>, clip_paths |-> <<>>, draw_paths |-> <<>>]

push_paint(sc, paint) == [sc EXCEPT !.paints = Append(@, paint)]
push_clip_path(sc, clip) == [sc EXCEPT !.clip_paths = Append(@, clip)]
push_draw_path(sc, dp) == [sc EXCEPT !.draw_paths = Append(@, dp)]

\* DrawPath::new: fill rule Winding, no clip path
DrawPathNew(outline, paint_id) ==
    [outline |-> outline, paint |-> paint_id, fill_rule |-> "Winding", clip_path |-> None]

(***************************************************************************)
(* DrawOptions::clip_path_id: the handle, the scene after it and what it   *)
(* printed                                                                 *)
(***************************************************************************)
clip_path_idAnyItem(self, sc) ==
    IF self.clip_path.kind = "Ref" THEN
        IF IsSome(Resolve(self.clip_path.id)) THEN
            LET outline == [clip |-> self.clip_path.id, built_with |-> self.transform]
                clip == [outline |-> outline, fill_rule |-> self.clip_rule]
            IN  [id |-> Some(Len(sc.clip_paths)), scene |-> push_clip_path(sc, clip),
                 printed |-> <<>>]
        ELSE [id |-> None, scene |-> sc, printed |-> <<self.clip_path.id>>]
    ELSE [id |-> None, scene |-> sc, printed |-> <<>>]

clip_path_id(self, sc) ==
    IF self.clip_path.kind = "Ref" THEN
        IF Resolve(self.clip_path.id) = Some("ClipPath") THEN
            LET outline == [clip |-> self.clip_path.id, built_with |-> self.transform]
                clip == [outline |-> outline, fill_rule |-> self.clip_rule]
            IN  [id |-> Some(Len(sc.clip_paths)), scene |-> push_clip_path(sc, clip),
                 printed |-> <<>>]
        ELSE [id |-> None, scene |-> sc, printed |-> <<self.clip_path.id>>]
    ELSE [id |-> None, scene |-> sc, printed |-> <<>>]

(***************************************************************************)
(* DrawOptions::draw: the scene after it and what it printed               *)
(***************************************************************************)
drawFill(self, sc, path, clip) ==
    LET fill == resolve_paint(self, self.fill, self.fill_opacity)
    IN  IF IsSome(fill) THEN
            LET outline == [path |-> path, stroke |-> None, transform |-> self.transform]
                s1 == push_paint(sc, fill.val)
                dp == [DrawPathNew(outline, Len(sc.paints)) EXCEPT
                          !.fill_rule = self.fill_rule, !.clip_path = clip]
            IN  push_draw_path(s1, dp)
        ELSE sc

drawStroke(self, sc, path, clip) ==
    LET stroke == resolve_paint(self, self.stroke, self.stroke_opacity)
    IN  IF IsSome(stroke) /\ Gt0(self.stroke_style.line_width) THEN
            LET s1 == push_paint(sc, stroke.val)
                outline == [path |-> path, stroke |-> Some(self.stroke_style),
                            transform |-> self.transform]
                dp == [DrawPathNew(outline, Len(sc.paints)) EXCEPT !.clip_path = clip]
            IN  push_draw_path(s1, dp)
        ELSE sc

drawStrokeFirst(self, sc, path) ==
    LET c == clip_path_id(self, sc)
    IN  [scene |-> drawFill(self, drawStroke(self, c.scene, path, c.id), path, c.id),
         printed |-> c.printed]

draw(self, sc, path) ==
    LET c == clip_path_id(self, sc)
    IN  [scene |-> drawStroke(self, drawFill(self, c.scene, path, c.id), path, c.id),
         printed |-> c.printed]

(***************************************************************************)
(* DrawOptions::bounds.  The rectangle is kept as the shape rectangle, the *)
(* width it is dilated by (None when it is not dilated) and the transform  *)
(* it is multiplied by.                                                    *)
(***************************************************************************)
\* Paint::is_visible: every paint but Paint::None
is_visible(paint) == paint.kind # "None"

bounds(self, rect) ==
    LET has_fill == is_visible(self.fill) /\ Gt0(self.fill_opacity)
        has_stroke == is_visible(self.stroke) /\ Gt0(self.stroke_opacity)
    IN  IF has_stroke
        THEN Some([rect |-> rect, dilate |-> Some(self.stroke_style.line_width),
                   transform |-> self.transform])
        ELSE IF has_fill
        THEN Some([rect |-> rect, dilate |-> None, transform |-> self.transform])
        ELSE None

(***************************************************************************)
(* Chunk and Chunk::layout.  A run is (Level, LevelRun): its bidi level    *)
(* and its byte range; a level is right-to-left when it is odd.            *)
(***************************************************************************)
Levels == 0 .. 2
is_rtl(level) == level % 2 = 1

Advances == {0, 3, 10}

RunRecs == {r \in [level : Levels, start : 0 .. MaxText - 1, end : 1 .. MaxText] :
                r.start < r.end}

Bytes(r) == r.start .. r.end - 1

\* Chunk::new: the visual runs of a non-empty text are disjoint byte ranges
\* that cover the text, in visual order
Chunks ==
    {[runs |-> rs] :
        rs \in {s \in UNION {[1 .. n -> RunRecs] : n \in 1 .. MaxRuns} :
                  /\ \A i, j \in DOMAIN s : i # j => Bytes(s[i]) \cap Bytes(s[j]) = {}
                  /\ \E len \in 1 .. MaxText :
                        UNION {Bytes(s[i]) : i \in DOMAIN s} = 0 .. len - 1}}

\* one iteration of the loop: the part pushed and the next offset
placeRtlForward(offset, run, advance) ==
    [part |-> [start |-> run.start, offset |-> offset, advance |-> advance],
     next |-> offset + advance]

placeRun(offset, run, advance) ==
    IF is_rtl(run.level)
    THEN [part |-> [start |-> run.start, offset |-> offset - advance, advance |-> advance],
          next |-> offset - advance]
    ELSE [part |-> [start |-> run.start, offset |-> offset, advance |-> advance],
          next |-> offset + advance]

\* the loop over self.runs from run i on; advs[i] is the advance of the
\* layout the font collection shapes for run i
RECURSIVE layoutFrom(_, _, _, _, _)
layoutFrom(runs, advs, i, offset, parts) ==
    IF i > Len(runs) THEN [parts |-> parts, advance |-> offset]
    ELSE LET p == placeRun(offset, runs[i], advs[i])
         IN  layoutFrom(runs, advs, i + 1, p.next, Append(parts, p.part))

chunk_layout(self, advs) == layoutFrom(self.runs, advs, 1, 0, <<>>)

(***************************************************************************)
(* The inputs of the walk                                                  *)
(***************************************************************************)
Half == Rat(1, 2)
TwoFifths == Rat(2, 5)
LocalTransform == TransformTranslation(<<R(1), R(1)>>)
Red == PaintColor("red")

StrokeWith(paint, n, u) ==
    [NoAttrs EXCEPT !.stroke = Some(paint), !.stroke_width = Some(Length(n, u))]

AttrsSet ==
    {NoAttrs,
     [NoAttrs EXCEPT !.opacity = Some(Half)],
     [NoAttrs EXCEPT !.opacity = Some(TwoFifths)],
     [NoAttrs EXCEPT !.transform = LocalTransform],
     [NoAttrs EXCEPT !.fill = Some(PaintRef("missing"))],
     [NoAttrs EXCEPT !.fill = Some(PaintRef("clip"))],
     [NoAttrs EXCEPT !.fill = Some(PaintRef("lin")), !.fill_rule = Some("Winding")],
     [NoAttrs EXCEPT !.fill = Some(PaintNone), !.fill_opacity = Some(Half)],
     [NoAttrs EXCEPT !.stroke = Some(PaintRef("missing"))],
     [NoAttrs EXCEPT !.fill = Some(PaintRef("missing")), !.stroke = Some(Red)],
     [NoAttrs EXCEPT !.stroke = Some(PaintRef("shape")), !.stroke_opacity = Some(Half)],
     [NoAttrs EXCEPT !.stroke = Some(PaintRef("rad"))],
     StrokeWith(Red, 0, "None"),
     StrokeWith(Red, -1, "Px"),
     StrokeWith(Red, MaxNum, "Px"),
     StrokeWith(Red, 50, "Percent"),
     [NoAttrs EXCEPT !.clip_path = Some(ClipRef("clip")), !.clip_rule = Some("Winding")],
     [NoAttrs EXCEPT !.clip_path = Some(ClipRef("clip"))],
     [NoAttrs EXCEPT !.clip_path = Some(ClipRef("missing"))],
     [NoAttrs EXCEPT !.clip_path = Some(ClipRef("lin"))],
     [NoAttrs EXCEPT !.clip_path = Some(ClipNone)]}

Paths == {"path"}

Vectors == {<<Length(0, "None"), Length(0, "None")>>,
            <<Length(50, "Percent"), Length(50, "Percent")>>,
            <<Length(200, "Px"), Length(100, "Px")>>,
            <<Length(MaxNum, "In"), Length(1, "Pc")>>}
Rects == {[origin |-> o, size |-> s] : o \in {<<Length(0, "None"), Length(0, "None")>>,
                                               <<Length(50, "Percent"), Length(1, "Px")>>},
                                        s \in Vectors}

\* the attributes and shape rectangles of the elements whose bounds are asked
BoundsAttrsSet ==
    {NoAttrs,
     [NoAttrs EXCEPT !.opacity = Some(Half)],
     [NoAttrs EXCEPT !.fill_opacity = Some(R(0))],
     [NoAttrs EXCEPT !.fill_opacity = Some(R(0)), !.stroke_opacity = Some(R(0))],
     [NoAttrs EXCEPT !.fill = Some(PaintNone)],
     [NoAttrs EXCEPT !.fill = Some(PaintRef("missing"))],
     [NoAttrs EXCEPT !.stroke = Some(PaintRef("lin"))],
     [NoAttrs EXCEPT !.stroke = Some(Red), !.stroke_opacity = Some(R(0))],
     StrokeWith(Red, 0, "None"),
     StrokeWith(Red, MaxNum, "Px")}

ShapeRects ==
    {RectFNew(<<R(0), R(0)>>, <<R(MaxNum), R(1)>>),
     RectFNew(<<R(-1), R(1)>>, <<R(0), R(0)>>)}

NoCall == [op |-> "none"]

(***************************************************************************)
(* The tree walk: an element derives its DrawOptions from its parent's     *)
(* (Apply), a shape draws with the current DrawOptions (Draw), and the     *)
(* walk returns to the parent (Leave).                                     *)
(***************************************************************************)
Apply(attrs) ==
    /\ status = "running"
    /\ visited < MaxNodes
    /\ stack' = Append(stack, apply(Top, attrs))
    /\ chain' = Append(chain, attrs)
    /\ visited' = visited + 1
    /\ last' = [op |-> "apply", self |-> Top, attrs |-> attrs]
    /\ UNCHANGED <<scene, stdout, status, ret, chunk, layout>>

Leave ==
    /\ status = "running"
    /\ Len(stack) > 1
    /\ stack' = SubSeq(stack, 1, Len(stack) - 1)
    /\ chain' = SubSeq(chain, 1, Len(chain) - 1)
    /\ last' = [op |-> "leave"]
    /\ UNCHANGED <<scene, stdout, status, ret, visited, chunk, layout>>

Draw(path) ==
    /\ status = "running"
    /\ visited < MaxNodes
    /\ LET d == draw(Top, scene, path)
       IN  /\ scene' = d.scene
           /\ stdout' = stdout \o d.printed
    /\ visited' = visited + 1
    /\ last' = [op |-> "draw", self |-> Top, path |-> path, before |-> scene,
                printed |-> Len(stdout)]
    /\ UNCHANGED <<stack, chain, status, ret, chunk, layout>>

(***************************************************************************)
(* Calls of the unit resolver on the current DrawOptions.  A call that     *)
(* panics ends the compile.                                                *)
(***************************************************************************)
Returned(r) ==
    /\ ret' = r
    /\ status' = IF r.tag = "Panic" THEN "panicked" ELSE status

ResolveLength(length) ==
    /\ status = "running"
    /\ Returned(resolve_length(Top, length))
    /\ last' = [op |-> "resolve_length", self |-> Top, length |-> length]
    /\ UNCHANGED <<stack, chain, scene, stdout, visited, chunk, layout>>

ResolveLengthAlong(length, axis) ==
    /\ status = "running"
    /\ Returned(resolve_length_along(Top, length, axis))
    /\ last' = [op |-> "resolve_length_along", self |-> Top, length |-> length,
                axis |-> axis]
    /\ UNCHANGED <<stack, chain, scene, stdout, visited, chunk, layout>>

ResolveVector(v) ==
    /\ status = "running"
    /\ Returned(resolve_vector(Top, v))
    /\ last' = [op |-> "resolve_vector", self |-> Top, v |-> v]
    /\ UNCHANGED <<stack, chain, scene, stdout, visited, chunk, layout>>

ResolveRect(rect) ==
    /\ status = "running"
    /\ Returned(resolve_rect(Top, rect))
    /\ last' = [op |-> "resolve_rect", self |-> Top, rect |-> rect]
    /\ UNCHANGED <<stack, chain, scene, stdout, visited, chunk, layout>>

ApplyViewbox(size, view_box) ==
    /\ status = "running"
    /\ visited < MaxViewBoxes
    /\ LET r == apply_viewbox(Top, size, view_box)
       IN  /\ stack' = IF IsSome(r) THEN SetTop(r.val) ELSE stack
           /\ status' = IF IsSome(r) THEN status ELSE "panicked"
    /\ ret' = None
    /\ visited' = visited + 1
    /\ last' = [op |-> "apply_viewbox", self |-> Top, size |-> size, rect |-> view_box]
    /\ UNCHANGED <<chain, scene, stdout, chunk, layout>>

(***************************************************************************)
(* Chunk::layout with a font collection whose shaped runs have the         *)
(* advances advs                                                           *)
(***************************************************************************)
Layout(advs) ==
    /\ layout' = Some(chunk_layout(chunk, advs))
    /\ last' = [op |-> "layout", advs |-> advs]
    /\ UNCHANGED <<stack, chain, scene, stdout, status, ret, visited, chunk>>

(***************************************************************************)
(* DrawOptions::bounds of a shape rectangle with the current DrawOptions   *)
(***************************************************************************)
Bounds(rect) ==
    /\ status = "running"
    /\ ret' = bounds(Top, rect)
    /\ last' = [op |-> "bounds", self |-> Top, rect |-> rect]
    /\ UNCHANGED <<stack, chain, scene, stdout, status, visited, chunk, layout>>

(***************************************************************************)
(* Specifications                                                          *)
(***************************************************************************)
NoChunk == [runs |-> <<>>]

InitWalk(dpis) ==
    /\ \E d \in dpis : stack = <<DrawOptionsNew(DrawContextNew(d))>>
    /\ chain = <<>>
    /\ scene = SceneNew
    /\ stdout = <<>>
    /\ status = "running"
    /\ ret = None
    /\ last = NoCall
    /\ visited = 0
    /\ layout = None

\* the compile of a document: DrawOptions::new, then the walk
Init == InitWalk({DefaultDpi}) /\ chunk = NoChunk

Next ==
    \/ \E attrs \in AttrsSet : Apply(attrs)
    \/ Leave
    \/ \E path \in Paths : Draw(path)

Spec == Init /\ [][Next]_vars

\* the unit resolver, called on the root DrawOptions and under a view box
InitLength == InitWalk(Dpis) /\ chunk = NoChunk

NextLength ==
    \/ \E l \in Lengths : ResolveLength(l)
    \/ \E l \in Lengths, axis \in Axis : ResolveLengthAlong(l, axis)
    \/ \E v \in Vectors : ResolveVector(v)
    \/ \E r \in Rects : ResolveRect(r)
    \/ \E size \in Vectors, r \in Rects : ApplyViewbox(size, r)

SpecLength == InitLength /\ [][NextLength]_vars

\* the layout of a chunk
InitLayout == InitWalk({DefaultDpi}) /\ chunk \in Chunks

NextLayout == \E advs \in [1 .. Len(chunk.runs) -> Advances] : Layout(advs)

SpecLayout == InitLayout /\ [][NextLayout]_vars

\* the walk of a document whose elements are drawn and asked for their bounds
NextBounds ==
    \/ \E attrs \in BoundsAttrsSet : Apply(attrs)
    \/ Leave
    \/ \E path \in Paths : Draw(path)
    \/ \E rect \in ShapeRects : Bounds(rect)

SpecBounds == Init /\ [][NextBounds]_vars

(***************************************************************************)
(* Properties                                                              *)
(***************************************************************************)
RECURSIVE OpacityNum(_)
OpacityNum(as) ==
    IF as = <<>> THEN 1
    ELSE (IF IsSome(Head(as).opacity) THEN Head(as).opacity.val[1] ELSE 1)
         * OpacityNum(Tail(as))

RECURSIVE OpacityDen(_)
OpacityDen(as) ==
    IF as = <<>> THEN 1
    ELSE (IF IsSome(Head(as).opacity) THEN Head(as).opacity.val[2] ELSE 1)
         * OpacityDen(Tail(as))

\* C1: the opacity of every DrawOptions of the chain is the product of the
\* opacity attributes applied from DrawOptions::new down to it, an absent
\* attribute counting as 1
C1_OpacityIsProduct ==
    \A i \in 1 .. Len(stack) :
        LET as == SubSeq(chain, 1, i - 1)
        IN  stack[i].opacity[1] * OpacityDen(as) = stack[i].opacity[2] * OpacityNum(as)

\* parent opacity 0.5, child attribute 0.4: the child's opacity is 0.2, not 0.4
C1_Witness ==
    /\ Len(chain) = 2
    /\ chain[1].opacity = Some(<<1, 2>>)
    /\ chain[2].opacity = Some(<<2, 5>>)
    /\ stack[2].opacity = <<1, 2>>
    /\ Top.opacity = <<1, 5>>

OptionFields ==
    {"clip_path", "clip_rule", "fill", "fill_rule", "fill_opacity", "stroke",
     "stroke_opacity"}

CopiedFields == {"view_box", "time", "ctx"}

\* the value field f has after chain[1..i]: that of the nearest element that
\* sets it, else that of the root
RECURSIVE Nearest(_, _)
Nearest(f, i) ==
    IF i = 0 THEN stack[1][f]
    ELSE IF IsSome(chain[i][f]) THEN chain[i][f].val
    ELSE Nearest(f, i - 1)

RECURSIVE NearestWidth(_)
NearestWidth(i) ==
    IF i = 0 THEN stack[1].stroke_style.line_width
    ELSE IF IsSome(chain[i].stroke_width) THEN <<chain[i].stroke_width.val.num, 1>>
    ELSE NearestWidth(i - 1)

\* C2: apply leaves its parent as it was, copies every field whose attribute
\* is absent, overrides the fields whose attribute is present, for the node
\* and for the descendants that do not override again, and always copies
\* line cap, line join, view box, time and context
C2_ApplyCopiesWithOverrides ==
    /\ last.op = "apply" => stack[Len(stack) - 1] = last.self
    /\ \A i \in 1 .. Len(chain) :
        LET parent == stack[i]
            child == stack[i + 1]
            attrs == chain[i]
        IN  /\ \A f \in OptionFields :
                /\ child[f] = IF IsSome(attrs[f]) THEN attrs[f].val ELSE parent[f]
                /\ child[f] = Nearest(f, i)
            /\ child.stroke_style.line_width =
                    IF IsSome(attrs.stroke_width) THEN <<attrs.stroke_width.val.num, 1>>
                    ELSE parent.stroke_style.line_width
            /\ child.stroke_style.line_width = NearestWidth(i)
            /\ child.stroke_style.line_cap = parent.stroke_style.line_cap
            /\ child.stroke_style.line_join = parent.stroke_style.line_join
            /\ \A f \in CopiedFields : child[f] = parent[f]

\* a grandchild without fill and clip-rule attributes keeps what its
\* grandparent set, after a parent that set neither
C2_Witness ==
    /\ last.op = "apply"
    /\ Len(chain) = 2
    /\ IsSome(chain[1].clip_rule) /\ chain[1].clip_rule.val = "Winding"
    /\ chain[2].clip_rule = None
    /\ IsSome(chain[2].stroke_width)
    /\ Top.clip_rule = "Winding"
    /\ Top.clip_path = ClipRef("clip")
    /\ Top.fill = PaintBlack
    /\ Top.stroke_style.line_width # stack[2].stroke_style.line_width

IsLengthCall == last.op \in {"resolve_length", "resolve_length_along"}

\* C3 (as claimed): p% along X is p/100 of the view box's width, along Y p/100
\* of its height, and None without a view box
C3_PercentOfViewBox ==
    (last.op = "resolve_length_along" /\ last.length.unit = "Percent") =>
        IF last.self.view_box = None THEN ret = None
        ELSE LET side == IF last.axis = "X" THEN RectWidth(last.self.view_box.val)
                         ELSE RectHeight(last.self.view_box.val)
             IN  ret = Some(Mul(Rat(last.length.num, 100), side))

Supported(v) == v[1].unit \notin Unimplemented /\ v[2].unit \notin Unimplemented

\* C4 (as claimed): resolving a vector or rectangle of supported units, or
\* applying a view box of them, never aborts the compile
C4_UnresolvableLengthIsRecoverable ==
    /\ (last.op = "resolve_vector" /\ Supported(last.v)) => status = "running"
    /\ (last.op = "resolve_rect" /\ Supported(last.rect.origin)
            /\ Supported(last.rect.size)) => status = "running"
    /\ (last.op = "apply_viewbox" /\ Supported(last.rect.origin)
            /\ Supported(last.rect.size) /\ Supported(last.size)) => status = "running"

\* C5: inches give n*d, cm n*d/2.54, mm n*d/25.4, pt n*d/75, unit-less and
\* pixel lengths n, from both resolvers, whatever the view box and the axis
C5_AbsoluteUnits ==
    (IsLengthCall /\ last.length.unit \in {"In", "Cm", "Mm", "Pt", "None", "Px"}) =>
        /\ ret.tag = "Some"
        /\ status = "running"
        /\ LET n == last.length.num
               d == last.self.ctx.dpi
               u == last.length.unit
               a == ret.val[1]
               b == ret.val[2]
           IN  CASE u = "In" -> a = n * d * b
                 [] u = "Cm" -> a * 254 = n * d * 100 * b
                 [] u = "Mm" -> a * 254 = n * d * 10 * b
                 [] u = "Pt" -> a * 75 = n * d * b
                 [] OTHER -> a = n * b

\* 2pt at 96 dpi under a view box: 2 * 96 / 75 = 64/25
C5_Witness ==
    /\ last.op = "resolve_length_along"
    /\ last.length = Length(2, "Pt")
    /\ last.self.ctx.dpi = 96
    /\ last.self.view_box # None
    /\ ret = Some(<<64, 25>>)

\* C6: em, ex and pica lengths make both resolvers fail fatally, whatever the
\* number, the axis and the view box; a percentage that cannot resolve
\* returns None and the compile goes on
C6_UnsupportedUnitsAreFatal ==
    /\ (IsLengthCall /\ last.length.unit \in {"Em", "Ex", "Pc"}) =>
            ret = Panic /\ status = "panicked"
    /\ (IsLengthCall /\ last.length.unit = "Percent"
            /\ (last.op = "resolve_length" \/ last.self.view_box = None)) =>
            ret = None /\ status = "running"

C6_Witness ==
    /\ last.op = "resolve_length_along"
    /\ last.length.unit = "Em"
    /\ last.self.view_box # None
    /\ ret = Panic
    /\ status = "panicked"

(***************************************************************************)
(* What the last draw call appended to the scene                           *)
(***************************************************************************)
NewOps == SubSeq(scene.draw_paths, Len(last.before.draw_paths) + 1, Len(scene.draw_paths))
NewPaints == SubSeq(scene.paints, Len(last.before.paints) + 1, Len(scene.paints))
NewClips ==
    SubSeq(scene.clip_paths, Len(last.before.clip_paths) + 1, Len(scene.clip_paths))
NewPrinted == SubSeq(stdout, last.printed + 1, Len(stdout))

IsFillOp(dp) == dp.outline.stroke = None
IsStrokeOp(dp) == dp.outline.stroke # None
FillOps == {i \in DOMAIN NewOps : IsFillOp(NewOps[i])}
StrokeOps == {i \in DOMAIN NewOps : IsStrokeOp(NewOps[i])}

\* the scene only grows, and every new operation uses a paint pushed for it
Appended ==
    /\ SubSeq(scene.draw_paths, 1, Len(last.before.draw_paths)) = last.before.draw_paths
    /\ SubSeq(scene.paints, 1, Len(last.before.paints)) = last.before.paints
    /\ SubSeq(scene.clip_paths, 1, Len(last.before.clip_paths)) = last.before.clip_paths
    /\ Len(NewPaints) = Len(NewOps)
    /\ \A i \in DOMAIN NewOps : NewOps[i].paint = Len(last.before.paints) + i - 1

\* a paint that references a missing id, or an item that is no gradient
Dangling(paint) ==
    /\ paint.kind = "Ref"
    /\ \/ paint.id \notin DOMAIN named_items
       \/ named_items[paint.id] \notin {"LinearGradient", "RadialGradient"}

GradientRef(paint) ==
    /\ paint.kind = "Ref"
    /\ paint.id \in DOMAIN named_items
    /\ named_items[paint.id] \in {"LinearGradient", "RadialGradient"}

Paintable(paint) == paint.kind = "Color" \/ GradientRef(paint)

\* C7: a draw call whose fill (stroke) paint is a dangling reference appends
\* no fill (stroke) operation and pushes no paint for it, does not abort and
\* still appends the other channel's operation when that one resolves,
\* whatever was drawn before; a solid colour fill is always drawn
C7_DanglingPaintIsSkipped ==
    last.op = "draw" =>
        LET self == last.self
            strokeVisible == Paintable(self.stroke) /\ self.stroke_style.line_width[1] > 0
        IN  /\ status = "running"
            /\ Appended
            /\ Dangling(self.fill) =>
                    /\ FillOps = {}
                    /\ Len(NewPaints) = Cardinality(StrokeOps)
                    /\ strokeVisible => Cardinality(StrokeOps) = 1
            /\ Dangling(self.stroke) =>
                    /\ StrokeOps = {}
                    /\ Len(NewPaints) = Cardinality(FillOps)
                    /\ Paintable(self.fill) => Cardinality(FillOps) = 1
            /\ self.fill.kind = "Color" =>
                    /\ Cardinality(FillOps) = 1
                    /\ \A i \in FillOps :
                          scene.paints[NewOps[i].paint + 1].kind = "color"
            /\ (self.stroke.kind = "Color" /\ self.stroke_style.line_width[1] > 0) =>
                    /\ Cardinality(StrokeOps) = 1
                    /\ \A i \in StrokeOps :
                          scene.paints[NewOps[i].paint + 1].kind = "color"

\* after a sibling was drawn: fill references a missing id, stroke is red,
\* and only the stroke is appended
C7_Witness ==
    /\ last.op = "draw"
    /\ Len(last.before.draw_paths) > 0
    /\ last.self.fill = PaintRef("missing")
    /\ last.self.stroke = Red
    /\ Len(NewOps) = 1
    /\ IsStrokeOp(NewOps[1])
    /\ Len(NewPaints) = 1
    /\ status = "running"

\* C8: a draw call whose fill and stroke paints resolve and whose stroke
\* width is positive appends exactly the fill and then the stroke; no draw
\* call appends a fill after a stroke, and none appends a stroke when the
\* width is 0 or less
C8_FillBeforeStroke ==
    last.op = "draw" =>
        LET self == last.self
            width == self.stroke_style.line_width
        IN  /\ (/\ IsSome(resolve_paint(self, self.fill, self.fill_opacity))
                /\ IsSome(resolve_paint(self, self.stroke, self.stroke_opacity))
                /\ width[1] > 0) =>
                    /\ Len(NewOps) = 2
                    /\ IsFillOp(NewOps[1])
                    /\ IsStrokeOp(NewOps[2])
            /\ \A i \in StrokeOps, j \in FillOps : j < i
            /\ width[1] <= 0 => StrokeOps = {}

C8_Witness ==
    /\ last.op = "draw"
    /\ last.self.stroke = Red
    /\ last.self.fill = PaintBlack
    /\ Len(NewOps) = 2
    /\ IsFillOp(NewOps[1])
    /\ IsStrokeOp(NewOps[2])
    /\ NewOps[2].outline.stroke.val.line_width = <<MaxNum, 1>>

\* C9: a draw call whose clip-path references a missing id or an item that
\* is no clip path registers no clip path, prints the warning and appends its
\* fill and stroke with no clip attached; one whose clip-path references a
\* clip path registers exactly one, with the cascade's clip rule, and
\* attaches its handle to every operation it appends
C9_ClipPathResolution ==
    last.op = "draw" =>
        LET self == last.self
            isRef == self.clip_path.kind = "Ref"
            good == /\ isRef
                    /\ self.clip_path.id \in DOMAIN named_items
                    /\ named_items[self.clip_path.id] = "ClipPath"
            expected ==
                (IF Paintable(self.fill) THEN 1 ELSE 0)
                + (IF Paintable(self.stroke) /\ self.stroke_style.line_width[1] > 0
                   THEN 1 ELSE 0)
        IN  /\ status = "running"
            /\ Len(NewOps) = expected
            /\ (isRef /\ ~good) =>
                    /\ NewClips = <<>>
                    /\ NewPrinted = <<self.clip_path.id>>
                    /\ \A i \in DOMAIN NewOps : NewOps[i].clip_path = None
            /\ good =>
                    /\ Len(NewClips) = 1
                    /\ NewClips[1].fill_rule = self.clip_rule
                    /\ NewClips[1].outline.clip = self.clip_path.id
                    /\ NewPrinted = <<>>
                    /\ \A i \in DOMAIN NewOps :
                          NewOps[i].clip_path = Some(Len(last.before.clip_paths))

\* clip-path references a gradient: nothing registered, a warning, and the
\* fill and the stroke both appended without a clip
C9_Witness ==
    /\ last.op = "draw"
    /\ last.self.clip_path = ClipRef("lin")
    /\ NewClips = <<>>
    /\ NewPrinted = <<"lin">>
    /\ Len(NewOps) = 2
    /\ NewOps[1].clip_path = None
    /\ NewOps[2].clip_path = None

\* the cursor before run i: the left-to-right advances minus the
\* right-to-left advances of the runs before it
RECURSIVE Cursor(_, _, _)
Cursor(runs, advs, i) ==
    IF i <= 1 THEN 0
    ELSE Cursor(runs, advs, i - 1)
         + (IF runs[i - 1].level % 2 = 0 THEN advs[i - 1] ELSE 0 - advs[i - 1])

\* C10: the layout has one part per run, in run order, with the run's start
\* byte; a left-to-right run is placed at the cursor, a right-to-left run at
\* the cursor minus its advance; the total advance is the final cursor
C10_LayoutPlacesRuns ==
    last.op = "layout" =>
        LET runs == chunk.runs
            advs == last.advs
            l == layout.val
        IN  /\ Len(l.parts) = Len(runs)
            /\ \A i \in DOMAIN runs :
                /\ l.parts[i].start = runs[i].start
                /\ l.parts[i].advance = advs[i]
                /\ l.parts[i].offset =
                        IF runs[i].level % 2 = 0 THEN Cursor(runs, advs, i)
                        ELSE Cursor(runs, advs, i) - advs[i]
            /\ l.advance = Cursor(runs, advs, Len(runs) + 1)

\* a single right-to-left run of advance 10: offset -10, advance -10
C10_Witness ==
    /\ last.op = "layout"
    /\ Len(chunk.runs) = 1
    /\ chunk.runs[1].level = 1
    /\ last.advs[1] = 10
    /\ layout.val.parts[1].offset = -10
    /\ layout.val.advance = -10

\* what draw would append to the scene with the DrawOptions of the last call
WouldDraw(path) ==
    LET d == draw(last.self, scene, path)
    IN  SubSeq(d.scene.draw_paths, Len(scene.draw_paths) + 1, Len(d.scene.draw_paths))

\* C11 (as claimed): bounds returns None exactly when draw would append no
\* draw operation, and the stroke-dilated rectangle only when draw would
\* append a stroke operation
C11_BoundsMirrorsDraw ==
    last.op = "bounds" =>
        \A path \in Paths :
            LET ops == WouldDraw(path)
            IN  /\ (ret = None) <=> (ops = <<>>)
                /\ (IsSome(ret) /\ ret.val.dilate # None) =>
                        \E i \in DOMAIN ops : IsStrokeOp(ops[i])

====
